---- MODULE Spec2Model ----
(***************************************************************************)
(* Model of the url_jail HTTP client adapters: the facade factories of     *)
(* url_jail_adapters/__init__.py and the requests adapter of               *)
(* url_jail_adapters/requests_adapter.py (UrlJailAdapter, safe_session).   *)
(*                                                                         *)
(* One client is constructed by one of the factories; NumThreads caller    *)
(* threads then issue requests through it concurrently.  A request walks   *)
(* through UrlJailAdapter.send line by line: the `if request.url` test,    *)
(* the blocking validate_sync call, and the native HTTPAdapter.send with   *)
(* its urllib3 retry loop.                                                 *)
(***************************************************************************)
EXTENDS Integers, FiniteSets, Sequences, TLC

\* ----------------------------------------------------------------- state
VARIABLES
  client,   \* the constructed client: kind, the UrlJailAdapter, the mounts
  ctor,     \* the last factory call: function, arguments, result
  req       \* per caller thread: the request in progress

vars == <<client, ctor, req>>

\* ---------------------------------------------------------------- bounds
NumThreads == 2
MaxRetries == 1

Threads == 1..NumThreads

\* ------------------------------------------------------------ vocabulary
\* Arguments of a call are tuples: <<>> for an omitted argument, <<v>> for
\* an argument given as v.
Omitted == <<>>
Given(v) == <<v>>

Policies == {"PUBLIC_ONLY", "ALLOW_PRIVATE"}
PolicyArgs == {Given(p) : p \in Policies} \cup {Omitted}
RetryArgs == {Given(n) : n \in 0..MaxRetries} \cup {Omitted}

ValidationErrors == {"SsrfBlocked", "InvalidUrl", "DnsError"}

\* The url of a PreparedRequest: scheme and host; NoUrl is the falsy url
\* (None or the empty string).
NoUrl == [scheme |-> "", host |-> ""]
Metadata == [scheme |-> "http", host |-> "169.254.169.254"]
Example == [scheme |-> "https", host |-> "example.com"]
Private == [scheme |-> "http", host |-> "10.0.0.5"]
NotAUrl == [scheme |-> "", host |-> "not a url"]
Unresolvable == [scheme |-> "http", host |-> "nxdomain.invalid"]

Urls == {NoUrl, Metadata, Example, Private, NotAUrl, Unresolvable}

\* Keyword arguments a caller hands to send (stream, timeout, verify, ...).
Kwargs == {"defaults", "stream"}

\* validate_sync(url, policy) of the validation engine, after the scenarios
\* of the specification (8): "ok" stands for a returned ValidatedUrl,
\* anything else for the exception raised.  The verdict of a url is stable.
validate_sync(url, policy) ==
  CASE url.scheme \notin {"http", "https"} -> "InvalidUrl"
    [] url.host = "nxdomain.invalid" -> "DnsError"
    [] url.host = "169.254.169.254" -> "SsrfBlocked"
    [] url.host = "10.0.0.5" ->
         IF policy = "ALLOW_PRIVATE" THEN "ok" ELSE "SsrfBlocked"
    [] OTHER -> "ok"

\* Python's default-argument rule: an omitted argument takes the default
\* written in the signature.
Default(arg, dflt) == IF arg = Omitted THEN dflt ELSE arg[1]

\* requests.adapters.DEFAULT_RETRIES: the retry total of an HTTPAdapter
\* constructed without max_retries, as requests.Session() mounts it.
DEFAULT_RETRIES == 0

\* urllib3 Retry(total=n)
Retry(n) == [total |-> n]

\* The HTTPAdapter that requests.Session() mounts for both schemes.
HTTPAdapter == [cls |-> "HTTPAdapter", policy |-> "none",
                max_retries |-> Retry(DEFAULT_RETRIES)]

NoAdapter == [cls |-> "none", policy |-> "none", max_retries |-> Retry(0)]

Prefixes == {"http://", "https://"}

\* requests.Session(): both prefixes mounted on default HTTPAdapters.
Session == [p \in Prefixes |-> "default"]

\* Session.mount(prefix, adapter)
mount(adapters, prefix, ref) == [adapters EXCEPT ![prefix] = ref]

\* Faulty variant: __init__ defaulting to ALLOW_PRIVATE.
UrlJailAdapter_defaultPrivate(policyArg, retriesKw) ==
  [cls |-> "UrlJailAdapter",
   policy |-> Default(policyArg, "ALLOW_PRIVATE"),
   max_retries |-> Default(retriesKw, Retry(DEFAULT_RETRIES))]

\* UrlJailAdapter.__init__(policy = PUBLIC_ONLY, **kwargs)
UrlJailAdapter(policyArg, retriesKw) ==
  [cls |-> "UrlJailAdapter",
   policy |-> Default(policyArg, "PUBLIC_ONLY"),
   max_retries |-> Default(retriesKw, Retry(DEFAULT_RETRIES))]

\* Faulty variant: the adapter mounted on http:// only.
safe_session_httpOnly(policyArg, retriesArg) ==
  LET policy == Default(policyArg, "PUBLIC_ONLY")
      max_retries == Default(retriesArg, 3)
      adapter == UrlJailAdapter(Given(policy), Given(Retry(max_retries)))
  IN [kind |-> "session",
      adapter |-> adapter,
      mounts |-> mount(Session, "http://", "jail")]

\* requests_adapter.safe_session(policy = PUBLIC_ONLY, max_retries = 3)
safe_session(policyArg, retriesArg) ==
  LET policy == Default(policyArg, "PUBLIC_ONLY")
      max_retries == Default(retriesArg, 3)
      adapter == UrlJailAdapter(Given(policy), Given(Retry(max_retries)))
  IN [kind |-> "session",
      adapter |-> adapter,
      mounts |-> mount(mount(Session, "http://", "jail"), "https://", "jail")]

\* url_jail_adapters.safe_session(policy = PUBLIC_ONLY): the facade.
facade_safe_session(policyArg) ==
  LET policy == Default(policyArg, "PUBLIC_ONLY")
  IN safe_session(Given(policy), Omitted)

\* httpx_adapter / aiohttp_adapter, after the specification (4.4, 4.5): the
\* factories behind the facade install a pre-dispatch hook bound to the
\* policy they are given.
hook_client(kind, policy) ==
  [kind |-> kind,
   adapter |-> [cls |-> "hook", policy |-> policy, max_retries |-> Retry(0)],
   mounts |-> [p \in Prefixes |-> "none"]]

\* url_jail_adapters.safe_httpx_client(policy = PUBLIC_ONLY)
safe_httpx_client(policyArg) ==
  hook_client("httpx", Default(policyArg, "PUBLIC_ONLY"))

\* url_jail_adapters.safe_httpx_async_client(policy = PUBLIC_ONLY)
safe_httpx_async_client(policyArg) ==
  hook_client("httpx_async", Default(policyArg, "PUBLIC_ONLY"))

\* url_jail_adapters.safe_aiohttp_session(policy = PUBLIC_ONLY)
safe_aiohttp_session(policyArg) ==
  hook_client("aiohttp", Default(policyArg, "PUBLIC_ONLY"))

\* ------------------------------------------------- pieces of send()
\* Faulty variant: only https urls are validated.
UrlIsTruthy_httpsOnly(url) == url.scheme = "https"

\* line 38: `if request.url:`
UrlIsTruthy(url) == url # NoUrl

\* Faulty variant: the exception is swallowed and send goes on to line 48.
OnValidationError_swallow(err, r) ==
  [r EXCEPT !.pc = "super", !.native = @ + 1,
            !.sent = [url |-> r.url, kw |-> r.kw]]

\* Faulty variant: the exception is replaced by a generic one.
OnValidationError_wrap(err, r) ==
  [r EXCEPT !.pc = "done", !.outcome = "RequestException"]

\* Faulty variant: a failed validation is retried like a transport failure.
OnValidationError_retry(err, r) ==
  IF r.vcalls <= client.adapter.max_retries.total
    THEN [r EXCEPT !.pc = "validate"]
    ELSE [r EXCEPT !.pc = "done", !.outcome = err]

\* line 40: validate_sync raises inside send, which has no try/except: the
\* exception leaves send as it is and ends the request.
OnValidationError(err, r) == [r EXCEPT !.pc = "done", !.outcome = err]

\* Faulty variant: a successful validation relaxes the adapter's policy.
AdapterAfterValidate_relax(adapter, url, result) ==
  IF result = "ok" THEN [adapter EXCEPT !.policy = "ALLOW_PRIVATE"] ELSE adapter

\* Faulty variant: a rejection tightens the adapter's policy.
AdapterAfterValidate_tighten(adapter, url, result) ==
  IF result = "ok" THEN adapter ELSE [adapter EXCEPT !.policy = "PUBLIC_ONLY"]

\* send assigns nothing to self: the adapter after a validation is the
\* adapter before it.
AdapterAfterValidate(adapter, url, result) == adapter

\* line 48: super().send(request, **kwargs)
SuperSendArgs(url, kw) == [url |-> url, kw |-> kw]

\* line 48: `return super().send(...)`
SendReturn(response) == response

\* Session.get_adapter(url): the adapter mounted on the matching prefix.
get_adapter(mounts, url) ==
  CASE url.scheme = "http" -> mounts["http://"]
    [] url.scheme = "https" -> mounts["https://"]
    [] OTHER -> "InvalidSchema"

NoClient == [kind |-> "none", adapter |-> NoAdapter,
             mounts |-> [p \in Prefixes |-> "none"]]

NoCall == [fn |-> "none", policyArg |-> Omitted, retriesArg |-> Omitted,
           result |-> "none"]

NoSent == [url |-> NoUrl, kw |-> "none"]

Idle == [pc |-> "idle", url |-> NoUrl, kw |-> "none", via |-> "none",
         vcalls |-> 0, vpolicy |-> "none", native |-> 0, sent |-> NoSent,
         attempts |-> 0, response |-> "none", outcome |-> "none"]

Init ==
  /\ client = NoClient
  /\ ctor = NoCall
  /\ req = [t \in Threads |-> Idle]

\* ---------------------------------------------------------- construction
\* url_jail_adapters.safe_session(...): the facade takes policy only, so a
\* max_retries argument is a TypeError and no session is returned.
CallFacadeSafeSession(pa, ra) ==
  /\ client.kind = "none"
  /\ IF ra = Omitted
       THEN /\ client' = facade_safe_session(pa)
            /\ ctor' = [fn |-> "facade.safe_session", policyArg |-> pa,
                        retriesArg |-> ra, result |-> "ok"]
       ELSE /\ client' = client
            /\ ctor' = [fn |-> "facade.safe_session", policyArg |-> pa,
                        retriesArg |-> ra, result |-> "TypeError"]
  /\ UNCHANGED req

\* requests_adapter.safe_session(policy, max_retries)
CallSafeSession(pa, ra) ==
  /\ client.kind = "none"
  /\ client' = safe_session(pa, ra)
  /\ ctor' = [fn |-> "requests_adapter.safe_session", policyArg |-> pa,
              retriesArg |-> ra, result |-> "ok"]
  /\ UNCHANGED req

\* UrlJailAdapter(policy, max_retries=Retry(total=n)) used on its own
CallUrlJailAdapter(pa, ra) ==
  /\ client.kind = "none"
  /\ client' = [kind |-> "adapter",
                adapter |-> UrlJailAdapter(pa, IF ra = Omitted THEN Omitted
                                               ELSE Given(Retry(ra[1]))),
                mounts |-> [p \in Prefixes |-> "none"]]
  /\ ctor' = [fn |-> "UrlJailAdapter", policyArg |-> pa,
              retriesArg |-> ra, result |-> "ok"]
  /\ UNCHANGED req

CallSafeHttpxClient(pa) ==
  /\ client.kind = "none"
  /\ client' = safe_httpx_client(pa)
  /\ ctor' = [fn |-> "facade.safe_httpx_client", policyArg |-> pa,
              retriesArg |-> Omitted, result |-> "ok"]
  /\ UNCHANGED req

CallSafeHttpxAsyncClient(pa) ==
  /\ client.kind = "none"
  /\ client' = safe_httpx_async_client(pa)
  /\ ctor' = [fn |-> "facade.safe_httpx_async_client", policyArg |-> pa,
              retriesArg |-> Omitted, result |-> "ok"]
  /\ UNCHANGED req

CallSafeAiohttpSession(pa) ==
  /\ client.kind = "none"
  /\ client' = safe_aiohttp_session(pa)
  /\ ctor' = [fn |-> "facade.safe_aiohttp_session", policyArg |-> pa,
              retriesArg |-> Omitted, result |-> "ok"]
  /\ UNCHANGED req

\* --------------------------------------------------------------- requests
HookKinds == {"httpx", "httpx_async", "aiohttp"}

\* The adapter object a request was dispatched to.
AdapterVia(via) == IF via = "UrlJailAdapter" THEN client.adapter ELSE HTTPAdapter

\* Entering HTTPAdapter.send with the arguments send passes on.
EnterSuper(r) ==
  [r EXCEPT !.pc = "super", !.native = @ + 1,
            !.sent = SuperSendArgs(r.url, r.kw)]

\* Session.send(request, **kwargs): get_adapter(url=request.url), then
\* adapter.send(request, **kwargs).  No mounted prefix: InvalidSchema.
SessionRequest(t, u, kw) ==
  /\ client.kind = "session"
  /\ req[t].pc = "idle"
  /\ LET ref == get_adapter(client.mounts, u)
         r == [req[t] EXCEPT !.url = u, !.kw = kw]
     IN req' = [req EXCEPT ![t] =
          CASE ref = "jail" -> [r EXCEPT !.pc = "send", !.via = "UrlJailAdapter"]
            [] ref = "default" -> EnterSuper([r EXCEPT !.via = "HTTPAdapter"])
            [] OTHER -> [r EXCEPT !.pc = "done", !.outcome = "InvalidSchema"]]
  /\ UNCHANGED <<client, ctor>>

\* UrlJailAdapter.send(request, **kwargs) called on the adapter object.
AdapterSend(t, u, kw) ==
  /\ client.kind \in {"session", "adapter"}
  /\ req[t].pc = "idle"
  /\ req' = [req EXCEPT ![t] = [@ EXCEPT !.url = u, !.kw = kw, !.pc = "send",
                                         !.via = "UrlJailAdapter"]]
  /\ UNCHANGED <<client, ctor>>

\* send, line 38: `if request.url:`; a falsy url goes straight to line 48.
SendCheckUrl(t) ==
  /\ req[t].pc = "send"
  /\ req' = [req EXCEPT ![t] =
       IF UrlIsTruthy(req[t].url) THEN [@ EXCEPT !.pc = "validate"]
       ELSE EnterSuper(@)]
  /\ UNCHANGED <<client, ctor>>

\* send, line 40: validated = validate_sync(request.url, self.policy);
\* on return fall through to line 48, on an exception leave send.
SendValidate(t) ==
  /\ req[t].pc = "validate"
  /\ LET policy == client.adapter.policy
         result == validate_sync(req[t].url, policy)
         r == [req[t] EXCEPT !.vcalls = @ + 1, !.vpolicy = policy]
     IN /\ req' = [req EXCEPT ![t] =
             IF result = "ok" THEN EnterSuper(r)
             ELSE OnValidationError(result, r)]
        /\ client' = [client EXCEPT !.adapter =
             AdapterAfterValidate(client.adapter, req[t].url, result)]
  /\ UNCHANGED ctor

\* HTTPAdapter.send: one connection attempt of urlopen under the adapter's
\* Retry.  A url without host opens nothing and raises InvalidURL; a failed
\* attempt is retried while the Retry total lasts, then ConnectionError.
NativeAttempt(t) ==
  /\ req[t].pc = "super"
  /\ LET r == req[t]
         total == AdapterVia(r.via).max_retries.total
     IN IF r.sent.url.host = "" \/ r.sent.url.scheme \notin {"http", "https"}
          THEN req' = [req EXCEPT ![t] =
                 [r EXCEPT !.pc = "done", !.outcome = "InvalidURL"]]
          ELSE \E ok \in BOOLEAN :
                 req' = [req EXCEPT ![t] =
                   IF ok
                     THEN [r EXCEPT !.pc = "done", !.attempts = @ + 1,
                                    !.response = "200",
                                    !.outcome = SendReturn("200")]
                   ELSE IF r.attempts + 1 > total
                     THEN [r EXCEPT !.pc = "done", !.attempts = @ + 1,
                                    !.outcome = "ConnectionError"]
                   ELSE [r EXCEPT !.attempts = @ + 1]]
  /\ UNCHANGED <<client, ctor>>

\* After the specification (4.4, 4.5): a request through an httpx / aiohttp
\* client runs the pre-dispatch hook first.
HookRequest(t, u, kw) ==
  /\ client.kind \in HookKinds
  /\ req[t].pc = "idle"
  /\ req' = [req EXCEPT ![t] = [@ EXCEPT !.url = u, !.kw = kw, !.pc = "hook",
                                         !.via = "hook"]]
  /\ UNCHANGED <<client, ctor>>

\* After the specification (4.4, 4.5): the hook validates under the bound
\* policy and either raises or lets dispatch resume.
HookValidate(t) ==
  /\ req[t].pc = "hook"
  /\ LET policy == client.adapter.policy
         result == validate_sync(req[t].url, policy)
         r == [req[t] EXCEPT !.vcalls = @ + 1, !.vpolicy = policy,
                             !.pc = "done"]
     IN req' = [req EXCEPT ![t] =
          IF result = "ok" THEN [r EXCEPT !.outcome = "dispatched"]
          ELSE [r EXCEPT !.outcome = result]]
  /\ UNCHANGED <<client, ctor>>

\* The caller has seen the response or the exception.
Return(t) ==
  /\ req[t].pc = "done"
  /\ req' = [req EXCEPT ![t] = Idle]
  /\ UNCHANGED <<client, ctor>>

Next ==
  \/ \E pa \in PolicyArgs, ra \in RetryArgs : CallFacadeSafeSession(pa, ra)
  \/ \E pa \in PolicyArgs, ra \in RetryArgs : CallSafeSession(pa, ra)
  \/ \E pa \in PolicyArgs, ra \in RetryArgs : CallUrlJailAdapter(pa, ra)
  \/ \E pa \in PolicyArgs : CallSafeHttpxClient(pa)
  \/ \E pa \in PolicyArgs : CallSafeHttpxAsyncClient(pa)
  \/ \E pa \in PolicyArgs : CallSafeAiohttpSession(pa)
  \/ \E t \in Threads, u \in Urls, kw \in Kwargs : SessionRequest(t, u, kw)
  \/ \E t \in Threads, u \in Urls, kw \in Kwargs : AdapterSend(t, u, kw)
  \/ \E t \in Threads, u \in Urls, kw \in Kwargs : HookRequest(t, u, kw)
  \/ \E t \in Threads : SendCheckUrl(t)
  \/ \E t \in Threads : SendValidate(t)
  \/ \E t \in Threads : NativeAttempt(t)
  \/ \E t \in Threads : HookValidate(t)
  \/ \E t \in Threads : Return(t)

Spec == Init /\ [][Next]_vars

TypeOK ==
  /\ client.kind \in {"none", "session", "adapter"} \cup HookKinds
  /\ client.adapter.policy \in Policies \cup {"none"}
  /\ \A t \in Threads : req[t].url \in Urls

\* ----------------------------------------------------------------- claims
\* The policy p the client was constructed for.
CtorPolicy == Default(ctor.policyArg, "PUBLIC_ONLY")

\* Thread t's request is inside, or has left, UrlJailAdapter.send.
InJail(t) == req[t].via = "UrlJailAdapter"

\* C1: a request for a url the engine blocks under the session's policy
\* never enters the native send, opens no connection, and ends in
\* SsrfBlocked.
C1_BlockedNeverSent ==
  \A t \in Threads :
    (/\ client.kind \in {"session", "adapter"}
     /\ InJail(t)
     /\ validate_sync(req[t].url, CtorPolicy) = "SsrfBlocked")
    => /\ req[t].native = 0
       /\ req[t].attempts = 0
       /\ req[t].pc = "done" => req[t].outcome = "SsrfBlocked"

C1_Witness ==
  \E t \in Threads :
    /\ client.kind = "session"
    /\ InJail(t)
    /\ req[t].url = Metadata
    /\ req[t].pc = "done"
    /\ req[t].outcome = "SsrfBlocked"
    /\ req[t].native = 0

\* C2 as stated: every request handled by UrlJailAdapter.send, without
\* exception, enters the native send only after a successful validate_sync
\* of its url under the adapter's policy.
C2_Original ==
  \A t \in Threads :
    (InJail(t) /\ req[t].native > 0)
    => /\ req[t].vcalls >= 1
       /\ req[t].vpolicy = client.adapter.policy
       /\ validate_sync(req[t].url, req[t].vpolicy) = "ok"

\* C2 amended: every request that carries a url enters the native send only
\* after a successful validate_sync of that url under the adapter's policy.
C2_ValidateBeforeSend ==
  \A t \in Threads :
    (InJail(t) /\ req[t].native > 0 /\ req[t].url # NoUrl)
    => /\ req[t].vcalls >= 1
       /\ req[t].vpolicy = client.adapter.policy
       /\ validate_sync(req[t].url, req[t].vpolicy) = "ok"

C2_Witness ==
  \E t \in Threads :
    /\ InJail(t)
    /\ req[t].url = Private
    /\ req[t].native = 1
    /\ req[t].vcalls = 1
    /\ req[t].pc = "super"

\* C3: when validate_sync fails inside send, the caller gets that very
\* error, and the request neither continues to the native send nor ends in
\* another kind of error.
C3_ErrorPropagates ==
  \A t \in Threads :
    (/\ InJail(t)
     /\ req[t].vcalls > 0
     /\ validate_sync(req[t].url, req[t].vpolicy) \in ValidationErrors)
    => /\ req[t].pc = "done"
       /\ req[t].outcome = validate_sync(req[t].url, req[t].vpolicy)
       /\ req[t].native = 0

C3_Witness ==
  \E t1, t2 \in Threads :
    /\ InJail(t1) /\ req[t1].pc = "done" /\ req[t1].outcome = "DnsError"
    /\ InJail(t2) /\ req[t2].pc = "done" /\ req[t2].outcome = "InvalidUrl"

\* C4: in a session built by safe_session with max_retries = N a request is
\* validated at most once, a rejected request is validated exactly once and
\* ends there without a connection attempt, and the native send makes at
\* most N + 1 attempts, all of them after the one validation.
C4_ValidationNotRetried ==
  \A t \in Threads :
    (/\ ctor.fn = "requests_adapter.safe_session"
     /\ ctor.retriesArg # Omitted
     /\ InJail(t))
    => /\ req[t].vcalls <= 1
       /\ req[t].attempts <= ctor.retriesArg[1] + 1
       /\ (req[t].attempts > 0 /\ req[t].url # NoUrl) => req[t].vcalls = 1
       /\ (req[t].pc = "done" /\ req[t].outcome \in ValidationErrors)
            => (req[t].vcalls = 1 /\ req[t].attempts = 0)

C4_Witness ==
  \E t1, t2 \in Threads :
    /\ ctor.fn = "requests_adapter.safe_session"
    /\ ctor.retriesArg = Given(1)
    /\ InJail(t1) /\ req[t1].attempts = 2 /\ req[t1].vcalls = 1
    /\ InJail(t2) /\ req[t2].pc = "done" /\ req[t2].outcome = "SsrfBlocked"
    /\ req[t2].vcalls = 1

\* C5: a client constructed without a policy argument validates every
\* request under PUBLIC_ONLY, as one constructed with PUBLIC_ONLY does.
C5_DefaultPolicy ==
  (ctor.result = "ok" /\ ctor.policyArg = Omitted)
  => /\ client.adapter.policy = "PUBLIC_ONLY"
     /\ \A t \in Threads : req[t].vcalls > 0 => req[t].vpolicy = "PUBLIC_ONLY"

C5_Witness ==
  \E t \in Threads :
    /\ ctor.result = "ok"
    /\ ctor.policyArg = Omitted
    /\ req[t].url = Private
    /\ req[t].vcalls = 1
    /\ req[t].outcome = "SsrfBlocked"

\* C6 as stated: whatever max_retries the caller hands to safe_session, by
\* the facade or by the requests adapter module, a session is returned
\* whose Retry has total = max_retries.
C6_RetriesForwarded ==
  (/\ ctor.fn \in {"facade.safe_session", "requests_adapter.safe_session"}
   /\ ctor.retriesArg # Omitted)
  => /\ ctor.result = "ok"
     /\ client.kind = "session"
     /\ client.adapter.max_retries.total = ctor.retriesArg[1]

\* What an unwrapped requests.Session, whose HTTPAdapter retries
\* DEFAULT_RETRIES times, returns for a request that met the same transport
\* failures.
UnwrappedOutcome(r) ==
  IF r.outcome = "200" /\ r.attempts - 1 > DEFAULT_RETRIES
    THEN "ConnectionError"
    ELSE r.outcome

\* C7 as stated: a request for an allowed url reaches the native send with
\* its url and keyword arguments unmodified, the native response is what
\* the caller gets, and the outcome is the one an unwrapped
\* requests.Session gives, retries included.
C7_SameAsUnwrapped ==
  \A t \in Threads :
    (/\ client.kind = "session"
     /\ InJail(t)
     /\ req[t].pc = "done"
     /\ validate_sync(req[t].url, CtorPolicy) = "ok")
    => /\ req[t].sent = [url |-> req[t].url, kw |-> req[t].kw]
       /\ req[t].response # "none" => req[t].outcome = req[t].response
       /\ req[t].outcome = UnwrappedOutcome(req[t])

\* C8: the policy of the adapter, and the policy handed to every
\* validate_sync call, is the one the client was constructed with.
C8_PolicyFixed ==
  client.kind \in {"session", "adapter"}
  => /\ client.adapter.policy = CtorPolicy
     /\ \A t \in Threads : req[t].vcalls > 0 => req[t].vpolicy = CtorPolicy

C8_Witness ==
  \E t1, t2 \in Threads :
    /\ client.kind = "session"
    /\ ctor.policyArg = Given("ALLOW_PRIVATE")
    /\ req[t1].pc = "done" /\ req[t1].outcome = "SsrfBlocked"
    /\ req[t2].pc = "done" /\ req[t2].outcome = "200" /\ req[t2].url = Private

\* C9: in a session built by safe_session both prefixes are mounted on the
\* one UrlJailAdapter, and every request that enters a native send was
\* dispatched through UrlJailAdapter.send.
C9_BothSchemesMounted ==
  client.kind = "session"
  => /\ client.mounts["http://"] = "jail"
     /\ client.mounts["https://"] = "jail"
     /\ \A t \in Threads : req[t].native > 0 => InJail(t)

C9_Witness ==
  \E t1, t2 \in Threads :
    /\ client.kind = "session"
    /\ req[t1].url.scheme = "http" /\ req[t1].native = 1 /\ InJail(t1)
    /\ req[t2].url.scheme = "https" /\ req[t2].native = 1 /\ InJail(t2)

\* C10: under every interleaving the outcome of a request is the one its
\* own url has under the policy of construction: a blocked url is rejected
\* and never sent, an allowed url is validated once and never ends in a
\* validation error.
C10_RequestsIndependent ==
  \A t \in Threads :
    (/\ client.kind \in {"session", "adapter"}
     /\ InJail(t)
     /\ req[t].url # NoUrl)
    => LET verdict == validate_sync(req[t].url, CtorPolicy)
       IN /\ verdict # "ok" => req[t].native = 0
          /\ (verdict # "ok" /\ req[t].pc = "done") => req[t].outcome = verdict
          /\ (verdict = "ok" /\ req[t].pc = "done")
               => (req[t].outcome \notin ValidationErrors /\ req[t].vcalls = 1)

C10_Witness ==
  \E t1, t2 \in Threads :
    /\ client.kind = "session"
    /\ CtorPolicy = "PUBLIC_ONLY"
    /\ req[t1].url = Example /\ req[t1].pc = "done" /\ req[t1].outcome = "200"
    /\ req[t2].url = Private /\ req[t2].pc = "done"
    /\ req[t2].outcome = "SsrfBlocked"

====
